---- MODULE Spec2Model ----
(***************************************************************************)
(* State-machine model of the Snake game core: Snake (src/src/snake.py),   *)
(* Food (src/src/food.py) and SnakeGame (src/src/game.py), with the        *)
(* constants of src/src/config.py.  Rendering, audio and fonts are left    *)
(* out: they read the state and never write it.                            *)
(***************************************************************************)
EXTENDS Integers, Sequences, FiniteSets, TLC

\* ------------------------------------------------------------ config.py
INITIAL_SNAKE_LENGTH == 3
INITIAL_SNAKE_POSITION == <<20, 11>>
INITIAL_FPS == 4
MAX_FPS == 15
SPEED_INCREASE_INTERVAL == 30
SPEED_INCREASE_AMOUNT == 1
NORMAL_FOOD_VALUE == 10
COOKIE_FOOD_VALUE == 20
COOKIE_LIFETIME == 4
UP == <<0, -1>>
DOWN == <<0, 1>>
LEFT == <<-1, 0>>
RIGHT == <<1, 0>>

\* ------------------------------------------- game.py, SnakeGame.__init__
playable_width == 30
playable_height == 15
playable_start_x == 5
playable_start_y == 4

\* game.py, class GameState
MENU == "menu"
PLAYING == "playing"
PAUSED == "paused"
GAME_OVER == "game_over"

\* food.py, Food.generate
max_attempts == 1000
FALLBACK_POSITION == <<5, 5>>
\* Optional[Tuple[int, int]]: None is the empty tuple
None == <<>>

\* ------------------------------------------------------- model bounds
\* the budget of a run of the game: a tick costs 1, a tick that eats 4, a
\* movement key that changes next_direction 4; the other steps are free
MaxCost == 21
\* the budget of a run of the snake alone: a move costs 1, update_direction
\* and grow 2 each
MaxCalls == 16
\* the snakes given to Food.generate alone have their head in a square of
\* this many cells a side, from the top left corner of the playable area
FoodSpan == 5
\* in a run of the game the random cells enumerated for a food are those
\* within this many steps (|dx| + |dy|) of the head of the snake; a run of
\* Food.generate alone draws from the whole playable area
FoodReach == 1

\* the calls of Food.update followed after one Food.generate: one more
\* than the longest cookie lifetime, COOKIE_LIFETIME * MAX_FPS
MaxUpdates == 61

\* the score up to which a run of the score and speed handlers eats
MaxScore == 480

\* ---------------------------------------------------------------- state
VARIABLES
    exited,       \* the process has ended: sys.exit() was called
    running,      \* run() goes on to another frame: no QUIT event was seen
                  \* and no handler has left through sys.exit()
    state,        \* SnakeGame.state
    score,        \* SnakeGame.score
    high_score,   \* SnakeGame.high_score
    current_fps,  \* SnakeGame.current_fps
    snake,        \* SnakeGame.snake: body, direction, next_direction, grow_pending
    food,         \* SnakeGame.food: position, food_type, value, lifetime, is_expired
    last,         \* history: what the last step did
    track,        \* history: the last food eaten, the moves since, the foods eaten
    cost          \* history: the budget spent so far

vars == <<exited, running, state, score, high_score, current_fps, snake, food,
          last, track, cost>>

Range(s) == {s[i] : i \in 1..Len(s)}

Min(a, b) == IF a < b THEN a ELSE b

Add(p, d) == <<p[1] + d[1], p[2] + d[2]>>

Distance(p, q) ==
    (IF p[1] > q[1] THEN p[1] - q[1] ELSE q[1] - p[1])
    + (IF p[2] > q[2] THEN p[2] - q[2] ELSE q[2] - p[2])

Directions == {UP, DOWN, LEFT, RIGHT}

\* ------------------------------------------------------------- snake.py
\* mutant: the upper bounds taken inclusive
IsValidPositionInclusive(pos) ==
    /\ playable_start_x <= pos[1]
    /\ pos[1] <= playable_start_x + playable_width
    /\ playable_start_y <= pos[2]
    /\ pos[2] <= playable_start_y + playable_height

\* Snake._is_valid_position, Food._is_valid_position (the same test)
IsValidPosition(pos) ==
    /\ playable_start_x <= pos[1]
    /\ pos[1] < playable_start_x + playable_width
    /\ playable_start_y <= pos[2]
    /\ pos[2] < playable_start_y + playable_height

\* mutant: the initial cells laid two columns apart
InitializeBodySpaced ==
    [i \in 1..INITIAL_SNAKE_LENGTH |->
        <<INITIAL_SNAKE_POSITION[1] - 2 * (i - 1), INITIAL_SNAKE_POSITION[2]>>]

\* Snake._initialize_body
InitializeBody ==
    [i \in 1..INITIAL_SNAKE_LENGTH |->
        <<INITIAL_SNAKE_POSITION[1] - (i - 1), INITIAL_SNAKE_POSITION[2]>>]

\* Snake.__init__
SnakeNew ==
    [body |-> InitializeBody, direction |-> RIGHT, next_direction |-> RIGHT,
     grow_pending |-> FALSE]

\* mutant: reset() without body.clear()
SnakeResetNoClear(s) ==
    [body |-> s.body \o InitializeBody, direction |-> RIGHT,
     next_direction |-> RIGHT, grow_pending |-> FALSE]

\* Snake.reset
SnakeReset(s) ==
    [body |-> InitializeBody, direction |-> RIGHT, next_direction |-> RIGHT,
     grow_pending |-> FALSE]

Opposite(d) == <<-d[1], -d[2]>>

\* update_direction without the test for a reversal
UpdateDirectionAny(s, new_direction) ==
    [s EXCEPT !.next_direction = new_direction]

\* mutant: the reversal tested against next_direction
UpdateDirectionVsNext(s, new_direction) ==
    IF Len(s.body) > 1 /\ new_direction = Opposite(s.next_direction)
    THEN s
    ELSE [s EXCEPT !.next_direction = new_direction]

\* Snake.update_direction
UpdateDirection(s, new_direction) ==
    IF Len(s.body) > 1 /\ new_direction = Opposite(s.direction)
    THEN s
    ELSE [s EXCEPT !.next_direction = new_direction]

\* mutant: the tail cell taken as vacated
SelfCollisionSkipTail(new_head, body) ==
    new_head \in Range(SubSeq(body, 1, Len(body) - 1))

\* Snake.move, "new_head in self.body"
SelfCollision(new_head, body) == new_head \in Range(body)

\* Snake.move, the head computed from next_direction
NewHead(s) == Add(s.body[1], s.next_direction)

\* mutant: the tail is never removed
AdvanceNoPop(body, new_head, growing) == <<new_head>> \o body

\* mutant: the tail is always removed
AdvanceAlwaysPop(body, new_head, growing) ==
    SubSeq(<<new_head>> \o body, 1, Len(body))

\* Snake.move, "insert(0, new_head)" then "pop()" unless growing
Advance(body, new_head, growing) ==
    LET inserted == <<new_head>> \o body
    IN  IF ~growing THEN SubSeq(inserted, 1, Len(inserted) - 1) ELSE inserted

\* mutant: move() without the test for the wall
MoveNoWall(s) ==
    LET turned == [s EXCEPT !.direction = s.next_direction]
        new_head == Add(turned.body[1], turned.direction)
    IN  IF SelfCollision(new_head, turned.body)
        THEN [ok |-> FALSE, snake |-> turned]
        ELSE [ok |-> TRUE,
              snake |-> [turned EXCEPT
                  !.body = Advance(turned.body, new_head, turned.grow_pending),
                  !.grow_pending = FALSE]]

\* mutant: the head is inserted before the collision checks
MoveInsertFirst(s) ==
    LET turned == [s EXCEPT !.direction = s.next_direction]
        new_head == Add(turned.body[1], turned.direction)
        inserted == [turned EXCEPT !.body = <<new_head>> \o turned.body]
    IN  IF ~IsValidPosition(new_head) THEN [ok |-> FALSE, snake |-> inserted]
        ELSE IF SelfCollision(new_head, turned.body)
        THEN [ok |-> FALSE, snake |-> inserted]
        ELSE [ok |-> TRUE,
              snake |-> [turned EXCEPT
                  !.body = Advance(turned.body, new_head, turned.grow_pending),
                  !.grow_pending = FALSE]]

\* Snake.move: the value returned (ok) and the snake afterwards
Move(s) ==
    LET turned == [s EXCEPT !.direction = s.next_direction]
        new_head == Add(turned.body[1], turned.direction)
    IN  IF ~IsValidPosition(new_head) THEN [ok |-> FALSE, snake |-> turned]
        ELSE IF SelfCollision(new_head, turned.body)
        THEN [ok |-> FALSE, snake |-> turned]
        ELSE [ok |-> TRUE,
              snake |-> [turned EXCEPT
                  !.body = Advance(turned.body, new_head, turned.grow_pending),
                  !.grow_pending = FALSE]]

\* mutant: grow() flips the flag
GrowToggle(s) == [s EXCEPT !.grow_pending = ~s.grow_pending]

\* Snake.grow
Grow(s) == [s EXCEPT !.grow_pending = TRUE]

\* -------------------------------------------------------------- food.py
\* Food.__init__
FoodNew ==
    [position |-> None, food_type |-> "normal", value |-> NORMAL_FOOD_VALUE,
     lifetime |-> 0, is_expired |-> FALSE]

\* Food.generate, the type drawn: random.random() < COOKIE_SPAWN_CHANCE
FoodKind(f, cookie, fps) ==
    IF cookie
    THEN [f EXCEPT !.food_type = "cookie", !.value = COOKIE_FOOD_VALUE,
                   !.lifetime = COOKIE_LIFETIME * fps]
    ELSE [f EXCEPT !.food_type = "normal", !.value = NORMAL_FOOD_VALUE,
                   !.lifetime = 0, !.is_expired = FALSE]

\* Food.generate, the placement loop.  rejected is the number of leading
\* draws of _get_random_position that land in exclude_positions, draw the
\* first draw that does not: the loop returns draw when it comes within
\* max_attempts attempts and the fallback cell otherwise.
PlaceFood(rejected, draw) ==
    IF rejected < max_attempts THEN draw ELSE FALLBACK_POSITION

\* Food.generate
Generate(f, cookie, rejected, draw, fps) ==
    [FoodKind(f, cookie, fps) EXCEPT !.position = PlaceFood(rejected, draw)]

\* Food._get_random_position: randint over the columns and the rows of
\* the playable area, every cell of it
RandomPositions ==
    (playable_start_x..(playable_start_x + playable_width - 1))
    \X (playable_start_y..(playable_start_y + playable_height - 1))

\* Food.generate, the draws that the placement loop accepts: every cell
\* of the playable area that is not in exclude_positions
DrawCells(exclude) == {p \in RandomPositions : p \notin Range(exclude)}

\* the foods that generate() makes of the accepted draws of a set of cells,
\* and of max_attempts rejected draws.  All max_attempts draws can be
\* rejected only when some cell of the playable area is excluded.
GenerateFrom(f, exclude, fps, cells) ==
    {Generate(f, cookie, 0, draw, fps) : cookie \in BOOLEAN, draw \in cells}
    \cup
    (IF \E i \in 1..Len(exclude) : IsValidPosition(exclude[i])
     THEN {Generate(f, cookie, max_attempts, exclude[1], fps) : cookie \in BOOLEAN}
     ELSE {})

\* Food.generate: every food the random draws can produce
GenerateOutcomes(f, exclude, fps) ==
    GenerateFrom(f, exclude, fps, DrawCells(exclude))

\* the accepted draws enumerated in a run of the game: those within
\* FoodReach steps of the head
NearCells(exclude) ==
    LET head == exclude[1]
    IN  {p \in {<<head[1] + dx, head[2] + dy>> :
                    dx \in (-FoodReach)..FoodReach, dy \in (-FoodReach)..FoodReach} :
            /\ Distance(p, head) <= FoodReach
            /\ p \in RandomPositions
            /\ p \notin Range(exclude)}

\* Food.generate in a run of the game: the foods of the draws enumerated
GenerateNear(f, exclude, fps) ==
    GenerateFrom(f, exclude, fps, NearCells(exclude))

\* update() ageing a food of any kind
FoodUpdateAlways(f) ==
    IF f.lifetime - 1 <= 0
    THEN [f EXCEPT !.lifetime = f.lifetime - 1, !.is_expired = TRUE,
                   !.position = None]
    ELSE [f EXCEPT !.lifetime = f.lifetime - 1]

\* Food.update
FoodUpdate(f) ==
    IF f.food_type = "cookie" /\ f.lifetime > 0
    THEN IF f.lifetime - 1 <= 0
         THEN [f EXCEPT !.lifetime = f.lifetime - 1, !.is_expired = TRUE,
                        !.position = None]
         ELSE [f EXCEPT !.lifetime = f.lifetime - 1]
    ELSE f

\* Food.is_eaten
IsEaten(f, snake_head_position) ==
    IF f.position = None THEN FALSE ELSE snake_head_position = f.position

\* Food.is_cookie
IsCookie(f) == f.food_type = "cookie"

\* Food.reset
FoodReset(f) ==
    [position |-> None, food_type |-> "normal", value |-> NORMAL_FOOD_VALUE,
     lifetime |-> 0, is_expired |-> FALSE]

\* -------------------------------------------------------------- game.py
\* _update_speed without the cap at MAX_FPS
UpdateSpeedNoCap(s) ==
    INITIAL_FPS + (s \div SPEED_INCREASE_INTERVAL) * SPEED_INCREASE_AMOUNT

\* SnakeGame._update_speed
UpdateSpeed(s) ==
    Min(INITIAL_FPS + (s \div SPEED_INCREASE_INTERVAL) * SPEED_INCREASE_AMOUNT,
        MAX_FPS)

\* _eat_food growing the snake for a cookie only
EatGrowCookieOnly(s, f) == IF IsCookie(f) THEN Grow(Grow(s)) ELSE s

\* SnakeGame._eat_food, the growth awarded: grow() twice for a cookie
EatGrow(s, f) == IF IsCookie(f) THEN Grow(Grow(s)) ELSE Grow(s)

\* _game_over storing the last score
GameOverHighScoreLast(sc, hs) == sc

\* SnakeGame._game_over, the high score kept
GameOverHighScore(sc, hs) == IF sc > hs THEN sc ELSE hs

NoTick ==
    [moved |-> FALSE, grew |-> FALSE, ate |-> "none", respawned |-> FALSE,
     onto |-> FALSE]

Did(op) == [op |-> op] @@ NoTick

NoTrack ==
    [kind |-> "none", len0 |-> INITIAL_SNAKE_LENGTH, moves |-> 0, eaten |-> 0]

\* SnakeGame.__init__: Menu, a fresh snake and a first food
Init ==
    /\ exited = FALSE
    /\ running = TRUE
    /\ state = MENU
    /\ score = 0
    /\ high_score = 0
    /\ current_fps = INITIAL_FPS
    /\ snake = SnakeNew
    /\ food \in GenerateNear(FoodNew, SnakeNew.body, INITIAL_FPS)
    /\ last = Did("init")
    /\ track = NoTrack
    /\ cost = 0

\* _start_game entering the Paused phase
StartGamePaused(op) ==
    /\ state' = PAUSED
    /\ score' = 0
    /\ current_fps' = INITIAL_FPS
    /\ snake' = SnakeReset(snake)
    /\ food' \in GenerateNear(food, SnakeReset(snake).body, INITIAL_FPS)
    /\ last' = Did(op)
    /\ track' = NoTrack
    /\ UNCHANGED <<exited, running, high_score, cost>>

\* SnakeGame._start_game (and _restart_game, which only calls it)
StartGame(op) ==
    /\ state' = PLAYING
    /\ score' = 0
    /\ current_fps' = INITIAL_FPS
    /\ snake' = SnakeReset(snake)
    /\ food' \in GenerateNear(food, SnakeReset(snake).body, INITIAL_FPS)
    /\ last' = Did(op)
    /\ track' = NoTrack
    /\ UNCHANGED <<exited, running, high_score, cost>>

\* _pause_game dropping the turn that waits for the next move
PauseGameClearTurn ==
    /\ state' = PAUSED
    /\ snake' = [snake EXCEPT !.next_direction = snake.direction]
    /\ UNCHANGED <<exited, running, score, high_score, current_fps, food, last,
                   track, cost>>

\* SnakeGame._pause_game
PauseGame ==
    /\ state' = PAUSED
    /\ UNCHANGED <<exited, running, score, high_score, current_fps, snake, food, last,
                   track, cost>>

\* SnakeGame._resume_game
ResumeGame ==
    /\ state' = PLAYING
    /\ UNCHANGED <<exited, running, score, high_score, current_fps, snake, food, last,
                   track, cost>>

\* SnakeGame._return_to_menu
ReturnToMenu ==
    /\ state' = MENU
    /\ snake' = SnakeReset(snake)
    /\ score' = 0
    /\ current_fps' = INITIAL_FPS
    /\ last' = Did("menu")
    /\ track' = NoTrack
    /\ UNCHANGED <<exited, running, high_score, food, cost>>

\* SnakeGame._handle_movement_key, for a key of direction_map
MovementKey(d) ==
    LET turned == UpdateDirection(snake, d)
    IN  /\ snake' = turned
        /\ IF turned # snake
           THEN cost + 4 <= MaxCost /\ cost' = cost + 4 /\ last' = Did("key")
           ELSE UNCHANGED <<cost, last>>
        /\ UNCHANGED <<exited, running, state, score, high_score, current_fps, food, track>>

\* SnakeGame._handle_keydown, a key that the current state does not handle
IgnoredKey ==
    UNCHANGED <<exited, running, state, score, high_score, current_fps, snake, food,
                last, track, cost>>

\* SnakeGame._handle_keydown in MENU, K_ESCAPE: pygame.quit(); sys.exit()
Quit ==
    /\ exited' = TRUE
    /\ running' = FALSE
    /\ last' = Did("quit")
    /\ UNCHANGED <<state, score, high_score, current_fps, snake, food, track, cost>>

\* SnakeGame._handle_movement_key, direction_map
DirectionMap ==
    [UP |-> UP, DOWN |-> DOWN, LEFT |-> LEFT, RIGHT |-> RIGHT,
     w |-> UP, s |-> DOWN, a |-> LEFT, d |-> RIGHT]

KeySet == {"SPACE", "RETURN", "ESCAPE", "r", "x"} \cup DOMAIN DirectionMap

\* SnakeGame.run, the event pygame.QUIT: running = False.  The events
\* behind it in the queue and the update of the frame are still handled.
QuitEvent ==
    /\ ~exited
    /\ running' = FALSE
    /\ UNCHANGED <<exited, state, score, high_score, current_fps, snake, food,
                   last, track, cost>>

\* SnakeGame.run, the event pygame.KEYDOWN: _handle_keydown(event.key)
HandleKeydown(key) ==
    /\ ~exited
    /\ \/ /\ state = MENU
          /\ \/ key \in {"SPACE", "RETURN"} /\ StartGame("start")
             \/ key = "ESCAPE" /\ Quit
             \/ key \notin {"SPACE", "RETURN", "ESCAPE"} /\ IgnoredKey
       \/ /\ state = PLAYING
          /\ \/ key = "SPACE" /\ PauseGame
             \/ key = "ESCAPE" /\ ReturnToMenu
             \/ key \in DOMAIN DirectionMap /\ MovementKey(DirectionMap[key])
             \/ key \in {"RETURN", "r", "x"} /\ IgnoredKey
       \/ /\ state = PAUSED
          /\ \/ key = "SPACE" /\ ResumeGame
             \/ key = "ESCAPE" /\ ReturnToMenu
             \/ key \notin {"SPACE", "ESCAPE"} /\ IgnoredKey
       \/ /\ state = GAME_OVER
          /\ \/ key = "r" /\ StartGame("restart")
             \/ key = "ESCAPE" /\ ReturnToMenu
             \/ key \notin {"r", "ESCAPE"} /\ IgnoredKey

\* a failed move that does not end the game
TickGameOverKeepsPlaying(f, r) ==
    /\ snake' = r.snake
    /\ food' = f
    /\ track' = track
    /\ cost' = cost + 1
    /\ UNCHANGED <<state, score, high_score, current_fps>>

\* SnakeGame._update_game and _game_over: the move failed
TickGameOver(f, r) ==
    /\ state' = GAME_OVER
    /\ high_score' = GameOverHighScore(score, high_score)
    /\ snake' = r.snake
    /\ food' = f
    /\ track' = track
    /\ cost' = cost + 1
    /\ UNCHANGED <<score, current_fps>>

\* _generate_food after an eat using the tick rate from before the eat
TickEatOldRate(f, r) ==
    LET grown == EatGrow(r.snake, f)
        fps == UpdateSpeed(score + f.value)
    IN  /\ cost + 4 <= MaxCost
        /\ cost' = cost + 4
        /\ score' = score + f.value
        /\ snake' = grown
        /\ current_fps' = fps
        /\ food' \in GenerateNear(f, grown.body, current_fps)
        /\ track' = [kind |-> f.food_type, len0 |-> Len(grown.body), moves |-> 0,
                     eaten |-> track.eaten + 1]
        /\ UNCHANGED <<state, high_score>>

\* _eat_food awarding the value of a normal food for every kind
TickEatFlatValue(f, r) ==
    LET grown == EatGrow(r.snake, f)
        fps == UpdateSpeed(score + NORMAL_FOOD_VALUE)
    IN  /\ cost + 4 <= MaxCost
        /\ cost' = cost + 4
        /\ score' = score + NORMAL_FOOD_VALUE
        /\ snake' = grown
        /\ current_fps' = fps
        /\ food' \in GenerateNear(f, grown.body, fps)
        /\ track' = [kind |-> f.food_type, len0 |-> Len(grown.body), moves |-> 0,
                     eaten |-> track.eaten + 1]
        /\ UNCHANGED <<state, high_score>>

\* SnakeGame._update_game, _eat_food and _generate_food: the head is on the food
TickEat(f, r) ==
    LET grown == EatGrow(r.snake, f)
        fps == UpdateSpeed(score + f.value)
    IN  /\ cost + 4 <= MaxCost
        /\ cost' = cost + 4
        /\ score' = score + f.value
        /\ snake' = grown
        /\ current_fps' = fps
        /\ food' \in GenerateNear(f, grown.body, fps)
        /\ track' = [kind |-> f.food_type, len0 |-> Len(grown.body), moves |-> 0,
                     eaten |-> track.eaten + 1]
        /\ UNCHANGED <<state, high_score>>

\* SnakeGame._update_game: the move succeeded and no food is eaten
TickMove(f, r) ==
    /\ snake' = r.snake
    /\ food' = f
    /\ track' = [track EXCEPT !.moves = Min(track.moves + 1, 2)]
    /\ cost' = cost + 1
    /\ UNCHANGED <<state, score, high_score, current_fps>>

\* _update_game testing for eating before it ages the food
UpdateGameEatFirst ==
    /\ cost < MaxCost
    /\ LET aged == FoodUpdate(food)
           r == Move(snake)
       IN  IF r.ok /\ IsEaten(food, r.snake.body[1])
           THEN /\ TickEat(food, r)
                /\ last' = [op |-> "tick", moved |-> TRUE,
                            grew |-> snake.grow_pending,
                            ate |-> food.food_type,
                            respawned |-> FALSE, onto |-> TRUE]
           ELSE \E f \in (IF aged.is_expired
                          THEN GenerateNear(aged, snake.body, current_fps)
                          ELSE {aged}) :
                   /\ IF ~r.ok THEN TickGameOver(f, r) ELSE TickMove(f, r)
                   /\ last' = [op |-> "tick", moved |-> r.ok,
                               grew |-> r.ok /\ snake.grow_pending,
                               ate |-> "none",
                               respawned |-> aged.is_expired, onto |-> FALSE]
    /\ UNCHANGED running

\* SnakeGame._update_game
UpdateGame ==
    /\ cost < MaxCost
    /\ LET aged == FoodUpdate(food)
           r == Move(snake)
       IN  \E f \in (IF aged.is_expired
                     THEN GenerateNear(aged, snake.body, current_fps)
                     ELSE {aged}) :
              /\ IF ~r.ok THEN TickGameOver(f, r)
                 ELSE IF IsEaten(f, r.snake.body[1]) THEN TickEat(f, r)
                 ELSE TickMove(f, r)
              /\ last' = [op |-> "tick", moved |-> r.ok,
                          grew |-> r.ok /\ snake.grow_pending,
                          ate |-> IF r.ok /\ IsEaten(f, r.snake.body[1])
                                  THEN f.food_type ELSE "none",
                          respawned |-> aged.is_expired,
                          onto |-> r.ok /\ IsEaten(food, r.snake.body[1])]
    /\ UNCHANGED running

\* SnakeGame._update outside PLAYING: nothing is updated
IdleUpdate ==
    UNCHANGED <<running, state, score, high_score, current_fps, snake, food,
                last, track, cost>>

\* _update running the game in every phase
UpdateAnyPhase == UpdateGame

\* SnakeGame._update
Update ==
    \/ state = PLAYING /\ UpdateGame
    \/ state # PLAYING /\ IdleUpdate

\* SnakeGame.run, the end of a frame: _update(), then the test of the
\* while loop, which is left after a frame that saw QUIT: pygame.quit();
\* sys.exit()
EndFrame ==
    /\ ~exited
    /\ Update
    /\ exited' = ~running

\* SnakeGame.run: the events of a frame, then the update
Next ==
    \/ QuitEvent
    \/ \E key \in KeySet : HandleKeydown(key)
    \/ EndFrame

Spec == Init /\ [][Next]_vars

\* ------------------------------------------------------ the snake alone
\* The Snake object as the game drives it, with the food left out: any
\* successful move may be the one that eats, so grow() is called once or
\* twice after a successful move, update_direction between moves, and
\* reset() at any time; after a failed move only reset() is called.  track
\* counts the grow() calls since the last move.
InitSnake ==
    /\ exited = FALSE
    /\ running = TRUE
    /\ state = PLAYING
    /\ score = 0
    /\ high_score = 0
    /\ current_fps = INITIAL_FPS
    /\ snake = SnakeNew
    /\ food = FoodNew
    /\ last = [op |-> "init"]
    /\ track = [calls |-> 0]
    /\ cost = 0

Failed == last.op = "move" /\ ~last.ok

\* Snake.update_direction(d)
CallUpdateDirection(d) ==
    /\ ~Failed
    /\ cost + 2 <= MaxCalls
    /\ snake' = UpdateDirection(snake, d)
    /\ last' = [op |-> "update_direction", arg |-> d]
    /\ cost' = cost + 2
    /\ UNCHANGED <<exited, running, state, score, high_score, current_fps, food, track>>

\* Snake.move()
CallMove ==
    /\ ~Failed
    /\ cost + 1 <= MaxCalls
    /\ snake' = Move(snake).snake
    /\ last' = [op |-> "move", ok |-> Move(snake).ok,
                grew |-> Move(snake).ok /\ snake.grow_pending,
                turned |-> snake.next_direction # snake.direction,
                grows |-> track.calls]
    /\ track' = [calls |-> 0]
    /\ cost' = cost + 1
    /\ UNCHANGED <<exited, running, state, score, high_score, current_fps, food>>

\* Snake.grow(), after a move that ate: once, or twice for a cookie
CallGrow ==
    /\ \/ last.op = "move" /\ last.ok
       \/ last.op = "grow" /\ track.calls = 1
    /\ cost + 2 <= MaxCalls
    /\ snake' = Grow(snake)
    /\ last' = [op |-> "grow"]
    /\ track' = [calls |-> track.calls + 1]
    /\ cost' = cost + 2
    /\ UNCHANGED <<exited, running, state, score, high_score, current_fps, food>>

\* Snake.reset(), as _start_game and _return_to_menu call it: on the new
\* snake, after a failed move, and after any other call (K_ESCAPE while
\* playing or paused, a start from the menu after a return to the menu)
CallReset ==
    /\ snake' = SnakeReset(snake)
    /\ last' = [op |-> "reset"]
    /\ track' = [calls |-> 0]
    /\ UNCHANGED <<exited, running, state, score, high_score, current_fps, food, cost>>

NextSnake ==
    \/ \E d \in Directions : CallUpdateDirection(d)
    \/ CallMove
    \/ CallGrow
    \/ CallReset

SpecSnake == InitSnake /\ [][NextSnake]_vars

\* ------------------------------------------------------- the food alone
\* Food.generate as SnakeGame._generate_food calls it, for a snake of the
\* initial shape lying anywhere near the top left corner, and Food.reset.
FoodSnakes ==
    {[SnakeNew EXCEPT !.body =
        [i \in 1..INITIAL_SNAKE_LENGTH |-> <<hx - (i - 1), hy>>]] :
        hx \in (playable_start_x + INITIAL_SNAKE_LENGTH - 1)
                 ..(playable_start_x + INITIAL_SNAKE_LENGTH + FoodSpan - 2),
        hy \in playable_start_y..(playable_start_y + FoodSpan - 1)}

InitFood ==
    /\ exited = FALSE
    /\ running = TRUE
    /\ state = PLAYING
    /\ score = 0
    /\ high_score = 0
    /\ current_fps = INITIAL_FPS
    /\ snake \in FoodSnakes
    /\ food = FoodNew
    /\ last = [op |-> "init"]
    /\ track = NoTrack
    /\ cost = 0

\* SnakeGame._generate_food
CallGenerate ==
    /\ food' \in GenerateOutcomes(food, snake.body, current_fps)
    /\ last' = [op |-> "generate"]
    /\ UNCHANGED <<exited, running, state, score, high_score, current_fps, snake, track,
                   cost>>

\* Food.reset(): a method of the Food object that no code of game.py calls
CallFoodReset ==
    /\ food' = FoodReset(food)
    /\ last' = [op |-> "reset"]
    /\ UNCHANGED <<exited, running, state, score, high_score, current_fps, snake,
                   track, cost>>

NextFood == CallGenerate \/ CallFoodReset

SpecFood == InitFood /\ [][NextFood]_vars

\* ------------------------------------------------- the food and its age
\* The Food object as SnakeGame._update_game drives it at one tick rate:
\* generate() first, then update() once a tick, and generate() again at any
\* tick (the food was eaten or has expired); reset() may be called on the
\* object at any time.  track counts the update() calls since the last
\* generate().
FpsValues == INITIAL_FPS..MAX_FPS

InitLife ==
    /\ exited = FALSE
    /\ running = TRUE
    /\ state = PLAYING
    /\ score = 0
    /\ high_score = 0
    /\ current_fps \in FpsValues
    /\ snake = SnakeNew
    /\ food = FoodNew
    /\ last = [op |-> "init"]
    /\ track = [updates |-> 0]
    /\ cost = 0

\* SnakeGame._generate_food
CallFoodGenerate ==
    /\ food' \in GenerateNear(food, snake.body, current_fps)
    /\ last' = [op |-> "generate"]
    /\ track' = [updates |-> 0]
    /\ UNCHANGED <<exited, running, state, score, high_score, current_fps, snake, cost>>

\* Food.update()
CallFoodUpdate ==
    /\ last.op # "init"
    /\ track.updates < MaxUpdates
    /\ food' = FoodUpdate(food)
    /\ last' = [op |-> "update"]
    /\ track' = [updates |-> track.updates + 1]
    /\ UNCHANGED <<exited, running, state, score, high_score, current_fps, snake, cost>>

NextLife == CallFoodGenerate \/ CallFoodUpdate \/ CallFoodReset

SpecLife == InitLife /\ [][NextLife]_vars

\* ------------------------------------------------- the score and speed
\* The handlers of SnakeGame that write state, score, high_score and
\* current_fps, run as the game runs them with the movement of the snake
\* left out: any tick of the Playing phase may be the one that eats the
\* food, or the one that fails.
InitSpeed ==
    /\ exited = FALSE
    /\ running = TRUE
    /\ state = MENU
    /\ score = 0
    /\ high_score = 0
    /\ current_fps = INITIAL_FPS
    /\ snake = SnakeNew
    /\ food \in GenerateNear(FoodNew, SnakeNew.body, INITIAL_FPS)
    /\ last = Did("init")
    /\ track = NoTrack
    /\ cost = 0

\* SnakeGame._start_game, from the menu or as the restart
CallStartGame ==
    /\ state \in {MENU, GAME_OVER}
    /\ StartGame("start")

\* SnakeGame._eat_food, then _generate_food
CallEatFood ==
    LET grown == EatGrow(snake, food)
        fps == UpdateSpeed(score + food.value)
    IN  /\ state = PLAYING
        /\ score + food.value <= MaxScore
        /\ score' = score + food.value
        /\ snake' = grown
        /\ current_fps' = fps
        /\ food' \in GenerateNear(food, grown.body, fps)
        /\ last' = Did("eat")
        /\ UNCHANGED <<exited, running, state, high_score, track, cost>>

\* SnakeGame._game_over
CallGameOver ==
    /\ state = PLAYING
    /\ state' = GAME_OVER
    /\ high_score' = GameOverHighScore(score, high_score)
    /\ last' = Did("over")
    /\ UNCHANGED <<exited, running, score, current_fps, snake, food, track, cost>>

\* SnakeGame._pause_game
CallPauseGame ==
    /\ state = PLAYING
    /\ PauseGame

\* SnakeGame._resume_game
CallResumeGame ==
    /\ state = PAUSED
    /\ ResumeGame

\* SnakeGame._return_to_menu
CallReturnToMenu ==
    /\ state \in {PLAYING, PAUSED, GAME_OVER}
    /\ ReturnToMenu

NextSpeed ==
    \/ CallStartGame
    \/ CallEatFood
    \/ CallGameOver
    \/ CallPauseGame
    \/ CallResumeGame
    \/ CallReturnToMenu

SpecSpeed == InitSpeed /\ [][NextSpeed]_vars

\* ------------------------------------------- the placement loop of a food
\* One call of Food.generate, attempt by attempt, for the snake of a new
\* game and for a snake that fills the playable area.  cost is attempts,
\* track holds the position of the call: before it, in the loop, returned.
FullSnake ==
    [SnakeNew EXCEPT !.body =
        [i \in 1..(playable_width * playable_height) |->
            LET row == (i - 1) \div playable_width
                col == (i - 1) % playable_width
            IN  <<playable_start_x
                    + (IF row % 2 = 0 THEN col ELSE playable_width - 1 - col),
                  playable_start_y + row>>]]

PlaceSnakes == {SnakeNew, FullSnake}

InitPlace ==
    /\ exited = FALSE
    /\ running = TRUE
    /\ state = PLAYING
    /\ score = 0
    /\ high_score = 0
    /\ current_fps = INITIAL_FPS
    /\ snake \in PlaceSnakes
    /\ food = FoodNew
    /\ last = [op |-> "init"]
    /\ track = [pc |-> "call"]
    /\ cost = 0

\* a loop of generate() that never gives up
KeepsTryingForever(attempts) == TRUE

\* Food.generate, the condition of the while loop
KeepsTrying(attempts) == attempts < max_attempts

\* Food.generate up to the loop: the type drawn, attempts = 0
PlaceBegin ==
    /\ track.pc = "call"
    /\ \E cookie \in BOOLEAN : food' = FoodKind(food, cookie, current_fps)
    /\ cost' = 0
    /\ track' = [pc |-> "loop"]
    /\ last' = [op |-> "begin"]
    /\ UNCHANGED <<exited, running, state, score, high_score, current_fps, snake>>

\* Food.generate, one turn of the loop: a draw that is returned, or one
\* that is rejected and counted.  The draws enumerated are the free cells
\* within FoodReach steps of the head, and the cell of the head.
PlaceTry ==
    /\ track.pc = "loop"
    /\ KeepsTrying(cost)
    /\ \E new_position \in NearCells(snake.body) \cup {snake.body[1]} :
          IF IsValidPosition(new_position) /\ new_position \notin Range(snake.body)
          THEN /\ food' = [food EXCEPT !.position = new_position]
               /\ track' = [pc |-> "return"]
               /\ cost' = cost
          ELSE /\ cost' = cost + 1
               /\ UNCHANGED <<food, track>>
    /\ last' = [op |-> "try"]
    /\ UNCHANGED <<exited, running, state, score, high_score, current_fps, snake>>

\* Food.generate after the loop: the fallback cell
PlaceFallback ==
    /\ track.pc = "loop"
    /\ ~KeepsTrying(cost)
    /\ food' = [food EXCEPT !.position = FALLBACK_POSITION]
    /\ track' = [pc |-> "return"]
    /\ last' = [op |-> "fallback"]
    /\ UNCHANGED <<exited, running, state, score, high_score, current_fps, snake, cost>>

NextPlace == PlaceBegin \/ PlaceTry \/ PlaceFallback

SpecPlace == InitPlace /\ [][NextPlace]_vars

\* the call keeps running: a started generate() is not suspended
SpecPlaceLive == SpecPlace /\ WF_vars(NextPlace)

\* ------------------------------------------ the tick a first food expires
\* The game from a start whose first food was drawn on one of the cells
\* that the head can enter in the tick in which a cookie of that start
\* expires: the cells COOKIE_LIFETIME * INITIAL_FPS steps from the head.
\* Only ticks and direction keys follow.
ExpiryCells ==
    {p \in (playable_start_x..(playable_start_x + playable_width - 1))
            \X (playable_start_y..(playable_start_y + playable_height - 1)) :
        Distance(p, INITIAL_SNAKE_POSITION) = COOKIE_LIFETIME * INITIAL_FPS}

InitTick ==
    /\ exited = FALSE
    /\ running = TRUE
    /\ state = PLAYING
    /\ score = 0
    /\ high_score = 0
    /\ current_fps = INITIAL_FPS
    /\ snake = SnakeNew
    /\ food \in {Generate(FoodNew, cookie, 0, draw, INITIAL_FPS) :
                    cookie \in BOOLEAN, draw \in ExpiryCells}
    /\ last = Did("start")
    /\ track = NoTrack
    /\ cost = 0

\* SnakeGame._handle_keydown in PLAYING, a key of direction_map
CallMovementKey(key) ==
    /\ running
    /\ state = PLAYING
    /\ MovementKey(DirectionMap[key])

NextTick ==
    \/ \E key \in DOMAIN DirectionMap : CallMovementKey(key)
    \/ EndFrame

SpecTick == InitTick /\ [][NextTick]_vars

\* ------------------------------------------------- a session left alone
\* The game from a start or restart on, with ticks and no key: the food
\* the start respawns may carry the is_expired flag of the session before.
\* cost counts the ticks of the session.
InheritedFoods == {FoodNew, [FoodNew EXCEPT !.is_expired = TRUE]}

InitRun ==
    /\ exited = FALSE
    /\ running = TRUE
    /\ state = PLAYING
    /\ score = 0
    /\ high_score = 0
    /\ current_fps = INITIAL_FPS
    /\ snake = SnakeNew
    /\ food \in UNION {GenerateNear(f, SnakeNew.body, INITIAL_FPS) :
                          f \in InheritedFoods}
    /\ last = Did("start")
    /\ track = NoTrack
    /\ cost = 0

\* SnakeGame._update_game, _eat_food and _generate_food: the head is on the food
RunEat(f, r) ==
    LET grown == EatGrow(r.snake, f)
        fps == UpdateSpeed(score + f.value)
    IN  /\ cost' = cost + 1
        /\ score' = score + f.value
        /\ snake' = grown
        /\ current_fps' = fps
        /\ food' \in GenerateNear(f, grown.body, fps)
        /\ track' = [kind |-> f.food_type, len0 |-> Len(grown.body), moves |-> 0,
                     eaten |-> track.eaten + 1]
        /\ UNCHANGED <<state, high_score>>

\* SnakeGame._update in PLAYING: _update_game
RunTick ==
    /\ running
    /\ state = PLAYING
    /\ LET aged == FoodUpdate(food)
           r == Move(snake)
       IN  \E f \in (IF aged.is_expired
                     THEN GenerateNear(aged, snake.body, current_fps)
                     ELSE {aged}) :
              /\ IF ~r.ok THEN TickGameOver(f, r)
                 ELSE IF IsEaten(f, r.snake.body[1]) THEN RunEat(f, r)
                 ELSE TickMove(f, r)
              /\ last' = [op |-> "tick", moved |-> r.ok,
                          grew |-> r.ok /\ snake.grow_pending,
                          ate |-> IF r.ok /\ IsEaten(f, r.snake.body[1])
                                  THEN f.food_type ELSE "none",
                          respawned |-> aged.is_expired,
                          onto |-> r.ok /\ IsEaten(food, r.snake.body[1])]
    /\ UNCHANGED <<exited, running>>

NextRun == RunTick

\* ticks keep occurring: SnakeGame.run calls _update in every frame
SpecRun == InitRun /\ [][NextRun]_vars /\ WF_vars(RunTick)

\* ---------------------------------------------------------------- claims
InsidePlayable(p) ==
    /\ playable_start_x <= p[1] /\ p[1] < playable_start_x + playable_width
    /\ playable_start_y <= p[2] /\ p[2] < playable_start_y + playable_height

\* a step of Spec that is a tick of the Playing phase
IsTick == state = PLAYING /\ cost' > cost /\ last'.op = "tick"

\* a step of SpecSnake that is a call of move()
IsMove == cost' > cost /\ last'.op = "move"

\* C1: in every reachable state of the game every cell of the snake body
\* lies inside the playable area, and a tick whose new head would lie
\* outside it fails the move (the game is over) without adding the head.
C1_BodyInsidePlayable ==
    /\ [](\A i \in 1..Len(snake.body) : InsidePlayable(snake.body[i]))
    /\ [][(IsTick /\ ~InsidePlayable(NewHead(snake)))
            => (~last'.moved /\ state' = GAME_OVER /\ snake'.body = snake.body)]_vars

\* C1 witness: a game ended by a move into the wall
C1_Witness ==
    /\ state = GAME_OVER
    /\ last.op = "tick" /\ ~last.moved
    /\ ~InsidePlayable(Add(snake.body[1], snake.direction))

\* C2: in every reachable state no two indices of the snake body hold the
\* same cell, also right after a growing move and right after reset.
C2_NoDuplicates ==
    \A i, j \in 1..Len(snake.body) : i # j => snake.body[i] # snake.body[j]

\* C2 witness: a move that grew a snake already longer than at the start
C2_Witness ==
    /\ last.op = "move" /\ last.ok /\ last.grew
    /\ Len(snake.body) > INITIAL_SNAKE_LENGTH + 1

\* C3: move() returns False whenever the new head equals a cell of the body,
\* the current tail cell included, whether or not grow_pending is set.
C3_SelfCollisionFails ==
    [][(IsMove /\ NewHead(snake) \in Range(snake.body)) => ~last'.ok]_vars

\* C3 witness: a move onto the tail cell failed while grow_pending was set
C3_Witness ==
    /\ last.op = "move" /\ ~last.ok
    /\ snake.grow_pending
    /\ Add(snake.body[1], snake.direction) = snake.body[Len(snake.body)]

\* C4 as claimed: a move() that returns False leaves body, direction,
\* next_direction and grow_pending as they were.
C4_FailedMoveUnchanged ==
    [][(IsMove /\ ~last'.ok) => snake' = snake]_vars

\* C4 amended: a move() that returns False leaves body, next_direction and
\* grow_pending as they were and has set direction to next_direction.
C4_FailedMoveKeepsBody ==
    [][(IsMove /\ ~last'.ok)
        => /\ snake'.body = snake.body
           /\ snake'.next_direction = snake.next_direction
           /\ snake'.grow_pending = snake.grow_pending
           /\ snake'.direction = snake.next_direction]_vars

\* C4 witness: a failed move that applied a pending turn
C4_Witness ==
    /\ last.op = "move" /\ ~last.ok /\ last.turned
    /\ snake.direction = snake.next_direction

\* C5: update_direction(d) with d the opposite of direction and a body
\* longer than 1 changes nothing; any other d sets next_direction to d and
\* changes nothing else.
C5_UpdateDirection ==
    [][(cost' > cost /\ last'.op = "update_direction")
        => IF Len(snake.body) > 1
              /\ last'.arg = <<-snake.direction[1], -snake.direction[2]>>
           THEN snake' = snake
           ELSE /\ snake'.next_direction = last'.arg
                /\ snake'.direction = snake.direction
                /\ snake'.body = snake.body
                /\ snake'.grow_pending = snake.grow_pending]_vars

\* C5 witness: a reversal was dropped while another turn was pending
C5_Witness ==
    /\ last.op = "update_direction"
    /\ last.arg = <<-snake.direction[1], -snake.direction[2]>>
    /\ snake.next_direction # snake.direction
    /\ snake.next_direction # last.arg

\* C6: a successful move() with grow_pending false gives the new head
\* followed by the old body without its last cell; the length is unchanged.
C6_MoveShifts ==
    [][(IsMove /\ last'.ok /\ ~snake.grow_pending)
        => /\ Len(snake'.body) = Len(snake.body)
           /\ snake'.body[1] = Add(snake.body[1], snake.next_direction)
           /\ \A i \in 2..Len(snake.body) : snake'.body[i] = snake.body[i - 1]]_vars

\* C6 witness: a successful move that turned and did not grow
C6_Witness ==
    /\ last.op = "move" /\ last.ok /\ ~last.grew /\ last.turned
    /\ snake.body[1] = Add(snake.body[2], snake.direction)

\* C7: grow() then a successful move() adds exactly one cell (the new head
\* before the whole old body), clears grow_pending and treats direction and
\* next_direction as a move that does not grow; a further successful move
\* without grow() keeps the length.
C7_GrowThenMove ==
    [][(IsMove /\ last'.ok)
        => /\ snake'.direction = snake.next_direction
           /\ snake'.next_direction = snake.next_direction
           /\ ~snake'.grow_pending
           /\ IF snake.grow_pending
              THEN snake'.body = <<Add(snake.body[1], snake.next_direction)>>
                                    \o snake.body
              ELSE Len(snake'.body) = Len(snake.body)]_vars

\* C7 witness: a move that grew the snake after one grow()
C7_Witness ==
    /\ last.op = "move" /\ last.ok /\ last.grew /\ last.grows = 1
    /\ Len(snake.body) = INITIAL_SNAKE_LENGTH + 1

\* C8: a second grow() before the next move changes nothing, and the moves
\* after grow() called twice add exactly one cell in total.
C8_GrowIdempotent ==
    /\ [][(cost' > cost /\ last'.op = "grow" /\ last.op = "grow")
            => snake' = snake]_vars
    /\ [][(IsMove /\ last'.ok)
            => /\ Len(snake'.body) =
                    Len(snake.body) + (IF track.calls >= 1 THEN 1 ELSE 0)
               /\ ~snake'.grow_pending]_vars

\* C8 witness: a successful move after grow() was called twice
C8_Witness ==
    /\ last.op = "move" /\ last.ok /\ last.grows = 2
    /\ Len(snake.body) = INITIAL_SNAKE_LENGTH + 1

\* C9 as claimed: two successful moves after a cookie was eaten the snake
\* is 2 cells longer than when it ate, and 1 cell longer after a normal food.
C9_CookieGrowsTwo ==
    track.moves = 2
        => Len(snake.body) =
             track.len0 + (CASE track.kind = "cookie" -> 2
                             [] track.kind = "normal" -> 1
                             [] OTHER -> 0)

\* C10 as claimed: the cell chosen by Food.generate is never one of
\* exclude_positions and always lies inside the playable area, the
\* fallback after max_attempts rejected draws included.
C10_FoodNotExcluded ==
    last.op = "generate"
        => /\ food.position \notin Range(snake.body)
           /\ InsidePlayable(food.position)


\* C11 as claimed: a cookie generated at tick rate r has lifetime
\* COOKIE_LIFETIME * r; each update() takes 1 from it, the position stays
\* set and is_expired false for the first 4r - 1 updates, and the 4r-th
\* update clears the position and sets is_expired.
C11_CookieLifetime ==
    (last.op \in {"generate", "update"} /\ food.food_type = "cookie")
        => LET total == COOKIE_LIFETIME * current_fps
           IN  IF track.updates < total
               THEN /\ food.lifetime = total - track.updates
                    /\ food.position # None
                    /\ ~food.is_expired
               ELSE /\ food.lifetime = 0
                    /\ food.position = None
                    /\ food.is_expired


\* C12: in every reachable state current_fps is
\* min(INITIAL_FPS + (score // SPEED_INCREASE_INTERVAL) * SPEED_INCREASE_AMOUNT,
\* MAX_FPS), so it lies in 4..15 and does not fall while the score grows;
\* score 29 gives 4, 30 gives 5 and 450 gives 15.
C12_SpeedFromScore ==
    /\ [](LET raw == 4 + (score \div 30) * 1
          IN  /\ current_fps = (IF raw < 15 THEN raw ELSE 15)
              /\ current_fps \in 4..15
              /\ UpdateSpeed(29) = 4
              /\ UpdateSpeed(30) = 5
              /\ UpdateSpeed(450) = 15)
    /\ [][score' >= score => current_fps' >= current_fps]_vars

\* C12 witness: the food eaten brought the score to 450 and the speed is
\* held at the maximum
C12_Witness ==
    /\ last.op = "eat"
    /\ score = 450
    /\ current_fps = MAX_FPS


\* C13: the phase starts at Menu and only ever changes from Menu to Playing
\* (start), Playing to Paused, Paused to Playing, Playing to GameOver (a
\* tick whose move fails), GameOver to Playing (restart), and from Playing,
\* Paused or GameOver to Menu; no other change of phase is reachable.
C13_PhaseTransitions ==
    /\ state = MENU
    /\ [][state' # state
            => \/ state = MENU /\ state' = PLAYING /\ last'.op = "start"
               \/ state = PLAYING /\ state' = PAUSED
               \/ state = PAUSED /\ state' = PLAYING
               \/ /\ state = PLAYING /\ state' = GAME_OVER
                  /\ last'.op = "tick" /\ ~last'.moved
               \/ state = GAME_OVER /\ state' = PLAYING /\ last'.op = "restart"
               \/ /\ state \in {PLAYING, PAUSED, GAME_OVER} /\ state' = MENU
                  /\ last'.op = "menu"]_vars

\* C13 witness: paused in a game restarted after a game over with a score
C13_Witness ==
    /\ state = PAUSED
    /\ last.op = "restart"
    /\ high_score > 0


\* the move() of the next tick fails: the new head is outside the playable
\* area or on a cell of the body
MoveFails(s) ==
    \/ ~InsidePlayable(Add(s.body[1], s.next_direction))
    \/ Add(s.body[1], s.next_direction) \in Range(s.body)

\* C14: the phase becomes GameOver exactly when a tick in Playing runs a
\* move() that returns False; that tick changes neither the score nor the
\* body, the move is not retried while the game is over, and no other
\* event brings the game to GameOver.
C14_GameOverOnFailedMove ==
    /\ [][(state # GAME_OVER /\ state' = GAME_OVER)
            => /\ IsTick /\ MoveFails(snake) /\ ~last'.moved
               /\ score' = score
               /\ snake'.body = snake.body]_vars
    /\ [][(IsTick /\ MoveFails(snake)) => state' = GAME_OVER]_vars
    /\ [][(state = GAME_OVER /\ state' = GAME_OVER)
            => /\ snake' = snake
               /\ score' = score]_vars

\* C14 witness: a grown snake with a score failed its move and the game is
\* over with the score kept
C14_Witness ==
    /\ state = GAME_OVER
    /\ last.op = "tick" /\ ~last.moved
    /\ score > 0
    /\ Len(snake.body) > INITIAL_SNAKE_LENGTH


\* C15: pause (Playing to Paused) and resume (Paused to Playing) change
\* nothing but the phase: snake, food, score, tick rate and high score are
\* as they were, so a pause followed at once by a resume gives back the
\* state before the pause.
C15_PauseResumeOnlyPhase ==
    [][(\/ state = PLAYING /\ state' = PAUSED
        \/ state = PAUSED /\ state' = PLAYING)
        => /\ snake' = snake
           /\ food' = food
           /\ score' = score
           /\ current_fps' = current_fps
           /\ high_score' = high_score
           /\ running' = running
           /\ exited' = exited]_vars

\* C15 witness: paused with a turn waiting for the next move, a score and
\* a cookie part of whose lifetime has run
C15_Witness ==
    /\ state = PAUSED
    /\ snake.next_direction # snake.direction
    /\ score > 0
    /\ food.food_type = "cookie"
    /\ food.lifetime < COOKIE_LIFETIME * current_fps


\* C16: in Menu, Paused and GameOver a tick changes no simulation state
\* (the snake does not move, the food does not age or respawn, score, tick
\* rate and high score stay) and a direction key does not change
\* next_direction: every step that stays in one of these phases leaves
\* snake, food, score, tick rate and high score as they were.
C16_IdlePhasesFrozen ==
    [][(state # PLAYING /\ state' = state)
        => /\ snake' = snake
           /\ food' = food
           /\ score' = score
           /\ current_fps' = current_fps
           /\ high_score' = high_score]_vars

\* C16 witness: the game is over while a cookie still has lifetime left
C16_Witness ==
    /\ state = GAME_OVER
    /\ food.food_type = "cookie"
    /\ food.lifetime > 0
    /\ food.position # None
    /\ ~food.is_expired


\* C17 as claimed: restart from GameOver gives the state of a fresh start
\* from Menu whatever was played before: the initial body, direction and
\* next_direction Right, grow_pending false, score 0, the initial tick
\* rate, phase Playing and a food in the state of a first spawn, its
\* expired flag included; high_score carries over.
C17_RestartIsFreshStart ==
    [][(state = GAME_OVER /\ state' = PLAYING)
        => /\ snake' = SnakeNew
           /\ score' = 0
           /\ current_fps' = INITIAL_FPS
           /\ high_score' = high_score
           /\ food' \in GenerateOutcomes(FoodNew, SnakeNew.body, INITIAL_FPS)]_vars


\* C18 as claimed: quit-to-menu from Playing, Paused or GameOver sets the
\* phase to Menu, the score to 0, the tick rate to the initial rate, the
\* snake to its initial layout and direction, and resets the food as well:
\* position, kind, lifetime and expired flag of the session are not kept.
C18_MenuResetsFood ==
    [][(state # MENU /\ state' = MENU)
        => /\ score' = 0
           /\ current_fps' = INITIAL_FPS
           /\ snake' = SnakeNew
           /\ food' = FoodReset(food)]_vars


\* C19: the score is never negative and never falls during a session: it
\* changes only in a tick of the Playing phase whose move succeeded with
\* the new head on the food, and then rises by the value of that food (10
\* for a normal food, 20 for a cookie); it returns to 0 only on start,
\* restart and quit-to-menu.
C19_ScoreOnlyByEating ==
    /\ [](score >= 0)
    /\ [][score' # score
            => \/ /\ IsTick /\ last'.moved /\ ~MoveFails(snake)
                  /\ last'.ate \in {"normal", "cookie"}
                  /\ score' = score + (IF last'.ate = "cookie" THEN 20 ELSE 10)
                  /\ ~last'.respawned
                        => /\ snake'.body[1] = food.position
                           /\ last'.ate = food.food_type
                           /\ score' = score + food.value
               \/ /\ score' = 0
                  /\ last'.op \in {"start", "restart", "menu"}]_vars
    /\ [][(IsTick /\ ~MoveFails(snake) /\ ~last'.respawned
              /\ Add(snake.body[1], snake.next_direction) = food.position)
            => score' = score + food.value]_vars

\* C19 witness: a cookie was eaten after a normal food, the score is 30
C19_Witness ==
    /\ state = PLAYING
    /\ last.op = "tick" /\ last.ate = "cookie"
    /\ score = NORMAL_FOOD_VALUE + COOKIE_FOOD_VALUE


\* C20: high_score never falls, changes only on the transition to GameOver
\* (so at most once a session), where it becomes the larger of high_score
\* and score; start, restart, pause, resume, the ticks that do not end the
\* game and quit-to-menu, also from Playing with score above high_score,
\* leave it as it was.
C20_HighScoreOnlyAtGameOver ==
    [][/\ high_score' >= high_score
       /\ high_score' # high_score => (state = PLAYING /\ state' = GAME_OVER)
       /\ (state # GAME_OVER /\ state' = GAME_OVER)
            => /\ high_score' >= score
               /\ high_score' \in {high_score, score}]_vars

\* C20 witness: a game ended below the high score, which is kept
C20_Witness ==
    /\ state = GAME_OVER
    /\ last.op = "over"
    /\ 0 < score /\ score < high_score


\* C21: a normal food never expires: it has no lifetime and is not
\* expired, and a tick of the Playing phase does not respawn it and leaves
\* its position, lifetime and is_expired as they were unless the head of
\* the snake lands on it in that tick.
C21_NormalFoodKeeps ==
    /\ [](food.food_type = "normal" => (food.lifetime = 0 /\ ~food.is_expired))
    /\ [][(IsTick /\ food.food_type = "normal")
            => /\ ~last'.respawned
               /\ \/ food' = food
                  \/ /\ last'.ate = "normal"
                     /\ snake'.body[1] = food.position]_vars

\* C21 witness: a normal food stays in place over a tick in which the
\* snake moved without eating, after a turn
C21_Witness ==
    /\ state = PLAYING
    /\ last.op = "tick" /\ last.moved /\ last.ate = "none" /\ ~last.respawned
    /\ food.food_type = "normal" /\ food.position # None
    /\ snake.direction # RIGHT
    /\ score = 0

\* C22: Food.generate makes at most max_attempts placement attempts, always
\* returns, and then a position is set: a drawn cell, or the fallback cell
\* (5, 5) when every attempt was rejected, as when the snake fills the
\* whole playable area.
C22_GenerateTerminates ==
    /\ [](cost <= max_attempts)
    /\ [](track.pc = "return"
            => /\ food.position # None
               /\ (cost = max_attempts) <=> (last.op = "fallback")
               /\ last.op = "fallback" => food.position = <<5, 5>>
               /\ last.op = "try" => (/\ InsidePlayable(food.position)
                                      /\ food.position \notin Range(snake.body)))
    /\ <>(track.pc = "return")

\* C22 witness: generate() returned the fallback cell after max_attempts
\* rejected attempts for a snake that fills the playable area
C22_Witness ==
    /\ track.pc = "return"
    /\ cost = max_attempts
    /\ food.position = FALLBACK_POSITION
    /\ Len(snake.body) = playable_width * playable_height


\* C23: in every reachable state next_direction is not the opposite of
\* direction, so no move reverses the direction of the move before it: the
\* new head computed by move() is never the neck, the second cell of the
\* body, whatever directions are asked for between two moves.
C23_NoReversal ==
    /\ [](snake.next_direction
            # <<-snake.direction[1], -snake.direction[2]>>)
    /\ [][IsMove
            => <<snake.body[1][1] + snake.next_direction[1],
                 snake.body[1][2] + snake.next_direction[2]>> # snake.body[2]]_vars

\* C23 witness: the snake that started to the right now moves to the left,
\* after two turns
C23_Witness ==
    /\ last.op = "move" /\ last.ok /\ last.turned
    /\ snake.direction = LEFT
    /\ snake.body[2] = <<snake.body[1][1] + 1, snake.body[1][2]>>


\* C24 as claimed: a tick of the Playing phase respawns the food only if
\* the food was eaten in that tick or its lifetime reached zero in that
\* tick; otherwise the food keeps its position, also a cookie that
\* replaced an expired cookie.
C24_RespawnOnlyWhenDue ==
    [][IsTick
        => LET due == food.food_type = "cookie" /\ food.lifetime = 1
           IN  /\ last'.respawned => due
               /\ (last'.ate = "none" /\ ~due)
                    => food'.position = food.position]_vars


\* C25: while a cookie is live in Playing or Paused the tick rate is the
\* one it was spawned with: the rate changes only in a tick that eats,
\* the food spawned by that tick uses the new rate, a cookie that a tick
\* leaves in place loses 1 of its lifetime at an unchanged rate, and so
\* 0 < lifetime <= COOKIE_LIFETIME * current_fps.
C25_CookieRateFixed ==
    /\ []((state \in {PLAYING, PAUSED} /\ food.food_type = "cookie")
            => /\ food.position # None
               /\ 0 < food.lifetime
               /\ food.lifetime <= COOKIE_LIFETIME * current_fps)
    /\ [][(state \in {PLAYING, PAUSED} /\ state' \in {PLAYING, PAUSED}
              /\ current_fps' # current_fps)
            => /\ IsTick /\ last'.ate # "none"
               /\ food'.food_type = "cookie"
                    => food'.lifetime = COOKIE_LIFETIME * current_fps']_vars
    /\ [][(IsTick /\ food'.food_type = "cookie")
            => \/ food'.lifetime = COOKIE_LIFETIME * current_fps'
               \/ /\ food.food_type = "cookie"
                  /\ food'.lifetime = food.lifetime - 1
                  /\ food'.position = food.position
                  /\ current_fps' = current_fps]_vars

\* C25 witness: a cookie spawned at a raised tick rate has lived some of
\* its ticks at that rate
C25_Witness ==
    /\ state = PLAYING
    /\ current_fps > INITIAL_FPS
    /\ food.food_type = "cookie"
    /\ ~food.is_expired
    /\ food.lifetime < COOKIE_LIFETIME * current_fps
    /\ food.lifetime > COOKIE_LIFETIME * INITIAL_FPS


\* C26: a tick of the Playing phase ages the food, respawns it if it has
\* expired, then moves the snake, then tests for eating: a cookie whose
\* lifetime reaches zero in a tick is replaced before the move and is not
\* eaten in that tick; when the head moves onto the cell it occupied the
\* score rises only by the value of a replacement eaten in that tick.
C26_ExpiredBeforeMove ==
    [][(IsTick /\ food.food_type = "cookie" /\ food.lifetime = 1)
        => /\ last'.respawned
           /\ food' # food
           /\ last'.ate = "none"
                => /\ score' = score
                   /\ food'.position # None
                   /\ last'.moved => food'.position # snake'.body[1]
           /\ last'.ate = "normal" => score' = score + NORMAL_FOOD_VALUE
           /\ last'.ate = "cookie" => score' = score + COOKIE_FOOD_VALUE]_vars

\* C26 witness: the head moved onto the cell of a cookie that expired in
\* that tick, and nothing was eaten
C26_Witness ==
    /\ last.op = "tick" /\ last.moved
    /\ last.respawned /\ last.onto
    /\ last.ate = "none"
    /\ score = 0


\* C27: in every reachable state of a session the length of the body, plus
\* 1 when grow_pending is set, is INITIAL_SNAKE_LENGTH plus the number of
\* foods eaten since the session started; the length is at least 3 and
\* does not fall during a session, and grow_pending is false when a food is
\* eaten: the tick that eats sets it and adds one to the sum.
C27_LengthCountsFood ==
    /\ [](/\ Len(snake.body) + (IF snake.grow_pending THEN 1 ELSE 0)
               = INITIAL_SNAKE_LENGTH + track.eaten
          /\ Len(snake.body) >= 3)
    /\ [][(~(state # MENU /\ state' = MENU)
              /\ ~(state \in {MENU, GAME_OVER} /\ state' = PLAYING))
            => Len(snake'.body) >= Len(snake.body)]_vars
    /\ [][(IsTick /\ last'.ate # "none")
            => /\ snake'.grow_pending
               /\ Len(snake'.body)
                    = Len(snake.body) + (IF snake.grow_pending THEN 1 ELSE 0)]_vars

\* C27 witness: three foods eaten, a cookie among them, the third just now
C27_Witness ==
    /\ state = PLAYING
    /\ track.eaten = 3
    /\ score > 3 * NORMAL_FOOD_VALUE
    /\ Len(snake.body) = INITIAL_SNAKE_LENGTH + 2
    /\ snake.grow_pending


\* C28: in every reachable state the body is a connected path: each cell
\* and the next one differ by one of the four unit displacements, also
\* after a growing move and after reset.
C28_BodyConnected ==
    \A i \in 1..(Len(snake.body) - 1) :
        <<snake.body[i][1] - snake.body[i + 1][1],
          snake.body[i][2] - snake.body[i + 1][2]>>
            \in {<<0, -1>>, <<0, 1>>, <<-1, 0>>, <<1, 0>>}

\* C28 witness: a move that turned and grew a snake that had grown before
C28_Witness ==
    /\ last.op = "move" /\ last.ok /\ last.grew /\ last.turned
    /\ Len(snake.body) > INITIAL_SNAKE_LENGTH + 1
    /\ snake.body[1][1] # snake.body[Len(snake.body)][1]
    /\ snake.body[1][2] # snake.body[Len(snake.body)][2]


\* C29: after a start or restart, with ticks going on in Playing and no
\* key pressed, the session reaches GameOver: the snake moves Right from
\* head x = 20, the move fails at the right wall after exactly 14
\* successful moves, on the 15th tick, whatever food is eaten on the way.
C29_StraightRunEnds ==
    /\ [](state = PLAYING
            => /\ cost <= 14
               /\ snake.body[1] = <<20 + cost, 11>>
               /\ snake.direction = <<1, 0>>)
    /\ [](state = GAME_OVER
            => /\ cost = 15
               /\ snake.body[1] = <<34, 11>>
               /\ last.op = "tick" /\ ~last.moved)
    /\ [](state \in {PLAYING, GAME_OVER})
    /\ <>(state = GAME_OVER)

\* C29 witness: the run ended on the 15th tick after two foods were eaten
\* on the way
C29_Witness ==
    /\ state = GAME_OVER
    /\ cost = 15
    /\ track.eaten = 2
    /\ Len(snake.body) = INITIAL_SNAKE_LENGTH + 2

====
